---- MODULE Spec2Model ----
(***************************************************************************)
(* Association statistics, bootstrap confidence interval, effect-size      *)
(* matrix builder and chord layouts of the YSO plotting tool.              *)
(*                                                                         *)
(* Numbers.  Exact quantities (counts, chi-squared, V^2) are rationals     *)
(* <<num, den>> in lowest terms.  A float returned by the program is a     *)
(* fixed-point number: the integer k stands for k / Scale, and np.sqrt is  *)
(* the square root rounded down to that resolution.                        *)
(***************************************************************************)
EXTENDS Integers, Sequences, FiniteSets, TLC

VARIABLES
    x,           \* first categorical series (a pandas Series, index 0..N-1)
    y,           \* second categorical series
    confidence,  \* confidence level of cramers_v_with_ci, in percent
    pc,          \* position of the running script
    ret,         \* value returned by the last completed call
    prev,        \* value returned by the call of cramers_v_with_ci before it
    rng,         \* state of numpy's global random generator
    draws,       \* draws other code took from the generator since the last call
    v,           \* point estimate held by cramers_v_with_ci
    v_bootstrap, \* bootstrap values collected so far
    indices,     \* index vector of the last resample
    x_boot,      \* x resampled
    y_boot,      \* y resampled
    gen,         \* which generator stands for the library's random stream
    n_vars,      \* dimension of the matrix being built
    matrix,      \* the matrix being built, cell by cell
    bi,          \* i of the running double loop
    bj,          \* j of the running double loop
    calls,       \* calls of the pairwise function so far: <<i, j, value returned>>
    threshold,   \* threshold of the chord layout, a rational
    corr_matrix, \* the correlation matrix laid out as a network
    nodes,       \* nodes of the layout: label, angle (in turns of 2 pi), size
    chords,      \* chords drawn so far
    prev_layout, \* the layout of the same table under the threshold before
    contingency_table, \* the table handed to create_matplotlib_chord
    labels,      \* the node labels drawn: angle and rotation, in degrees
    panels,      \* the panels of create_zoomed_chord_rare_categories so far
    delW2mag,    \* the numeric column the variability category is made from
    Variability  \* the column categorize_variability returned

vars == <<x, y, confidence, pc, ret, prev, rng, draws, v, v_bootstrap,
          indices, x_boot, y_boot, gen, n_vars, matrix, bi, bj, calls,
          threshold, corr_matrix, nodes, chords, prev_layout,
          contingency_table, labels, panels, delW2mag, Variability>>

\* ---------------------------------------------------------------- bounds
\* longest series drawn as input
MaxN == 3
\* resolution of the fixed-point floats: k stands for k / Scale
Scale == 1000
\* bootstrap iterations (range(1000) in the program)
NResamples == 3
\* draws other code may take from the global generator before a call
MaxOtherDraws == 2
\* most variables of a correlation matrix drawn as input
MaxVars == 3
\* np.random.seed(42)
SeedValue == 42
\* categorical_vars = ['YSO_CLASS', 'LCType', 'Variability']
NCatVars == 3

\* category labels, ordered as pandas orders them in a crosstab
Categories == {1, 2, 3}

\* ------------------------------------------------------------- rationals
Abs(a) == IF a < 0 THEN -a ELSE a

Min2(a, b) == IF a <= b THEN a ELSE b

Max2(a, b) == IF a >= b THEN a ELSE b

RECURSIVE GCD(_, _)
GCD(a, b) == IF b = 0 THEN a ELSE GCD(b, a % b)

\* n / d in lowest terms, d > 0
Rat(n, d) == LET g == GCD(Abs(n), d) IN <<n \div g, d \div g>>

RZero == <<0, 1>>

ROne == <<1, 1>>

RAdd(p, q) ==
    LET g == GCD(p[2], q[2])
    IN  Rat(p[1] * (q[2] \div g) + q[1] * (p[2] \div g), (p[2] \div g) * q[2])

\* p / k for an integer k > 0
RDivInt(p, k) == LET g == GCD(Abs(p[1]), k) IN Rat(p[1] \div g, p[2] * (k \div g))

RLeq(p, q) == p[1] * q[2] <= q[1] * p[2]

RECURSIVE RSum(_, _)
RSum(f, S) ==
    IF S = {} THEN RZero
    ELSE LET c == CHOOSE c \in S : TRUE IN RAdd(f[c], RSum(f, S \ {c}))

RECURSIVE ISum(_, _)
ISum(f, S) ==
    IF S = {} THEN 0
    ELSE LET c == CHOOSE c \in S : TRUE IN f[c] + ISum(f, S \ {c})

\* ------------------------------------------------------------ fixed point
RECURSIVE ISqrtIn(_, _, _)
\* largest k in lo..hi with k * k <= t, given lo * lo <= t
ISqrtIn(t, lo, hi) ==
    IF lo >= hi THEN lo
    ELSE LET mid == (lo + hi + 1) \div 2
         IN  IF mid * mid <= t THEN ISqrtIn(t, mid, hi) ELSE ISqrtIn(t, lo, mid - 1)

\* floor(q * Scale * Scale) for a rational q >= 0, without a wide product
ScaledSq(q) ==
    LET a == (q[1] * Scale) \div q[2]
        r == (q[1] * Scale) % q[2]
    IN  a * Scale + (r * Scale) \div q[2]

\* np.sqrt(q) as a fixed-point float
FSqrt(q) == ISqrtIn(ScaledSq(q), 0, 4 * Scale)

\* -------------------------------------------------------------- crosstab
\* pd.crosstab(x, y): the two series are aligned on their index and the
\* distinct values observed become the row and the column labels
crosstab(xs, ys) ==
    LET idx  == 1 .. Min2(Len(xs), Len(ys))
        rows == {xs[k] : k \in idx}
        cols == {ys[k] : k \in idx}
    IN  [rows |-> rows,
         cols |-> cols,
         cnt  |-> [c \in rows \X cols |->
                     Cardinality({k \in idx : xs[k] = c[1] /\ ys[k] = c[2]})]]

\* confusion_matrix.sum().sum()
TableTotal(ct) == ISum(ct.cnt, ct.rows \X ct.cols)

RowTotal(ct, r) == ISum([c \in ct.cols |-> ct.cnt[<<r, c>>]], ct.cols)

ColTotal(ct, c) == ISum([r \in ct.rows |-> ct.cnt[<<r, c>>]], ct.rows)

\* a slip: len(confusion_matrix.shape) - 1, which is 1 for every table
MinDimOfNdim(ct) == 1

\* min(confusion_matrix.shape) - 1
MinDim(ct) == Min2(Cardinality(ct.rows), Cardinality(ct.cols)) - 1

\* (observed - expected)^2 / expected of one cell, expected = row * col / n
PearsonTerm(n, o, r, c) == Rat((n * o - r * c) * (n * o - r * c), n * r * c)

\* the same after Yates' continuity correction: the observed count is moved
\* towards the expected one by min(0.5, |expected - observed|)
YatesTerm(n, o, r, c) ==
    LET m == Max2(2 * Abs(n * o - r * c) - n, 0)
    IN  RDivInt(RDivInt(Rat(m * m, r * c), n), 4)

\* chi2_contingency(observed)[0] with scipy's defaults (correction=True,
\* Pearson statistic): 0 when there is no degree of freedom, Yates' correction
\* when there is exactly one
chi2_contingency(ct) ==
    LET n   == TableTotal(ct)
        dof == (Cardinality(ct.rows) - 1) * (Cardinality(ct.cols) - 1)
        cells == ct.rows \X ct.cols
        term(c) == IF dof = 1
                   THEN YatesTerm(n, ct.cnt[c], RowTotal(ct, c[1]), ColTotal(ct, c[2]))
                   ELSE PearsonTerm(n, ct.cnt[c], RowTotal(ct, c[1]), ColTotal(ct, c[2]))
    IN  IF dof = 0 THEN RZero ELSE RSum([c \in cells |-> term(c)], cells)

\* ------------------------------------------------------------ statistics
\* chi2 / (n * min_dim), the quantity under the square root of cramers_v
CramersRadicand(ct) == RDivInt(RDivInt(chi2_contingency(ct), TableTotal(ct)), MinDim(ct))

\* a slip: the one-category table returns the self-association value 1.0
cramers_v_one_when_degenerate(xs, ys) ==
    LET confusion_matrix == crosstab(xs, ys)
    IN  IF MinDim(confusion_matrix) = 0 THEN Scale
        ELSE FSqrt(CramersRadicand(confusion_matrix))

cramers_v(xs, ys) ==
    LET confusion_matrix == crosstab(xs, ys)
    IN  IF MinDim(confusion_matrix) = 0 THEN 0
        ELSE FSqrt(CramersRadicand(confusion_matrix))

\* chi2 / n, the quantity under the square root of phi_coefficient
PhiRadicand(ct) == RDivInt(chi2_contingency(ct), TableTotal(ct))

phi_coefficient(xs, ys) == FSqrt(PhiRadicand(crosstab(xs, ys)))

\* ----------------------------------------------------------------- inputs
IsSorted(s) == \A k \in 1 .. Len(s) - 1 : s[k] <= s[k + 1]

SeriesOfLen(n) == [1 .. n -> Categories]

\* rows of the data frame, listed by the category of x
InputPairs ==
    UNION {{p \in SeriesOfLen(n) \X SeriesOfLen(n) : IsSorted(p[1])} : n \in 1 .. MaxN}

\* the table {(A,X):40, (A,Y):10, (B,X):5, (B,Y):45} as two series, A, X = 1
\* and B, Y = 2
ScenarioX == [k \in 1 .. 100 |-> IF k <= 50 THEN 1 ELSE 2]

ScenarioY == [k \in 1 .. 100 |-> IF k <= 40 \/ (50 < k /\ k <= 55) THEN 1 ELSE 2]

\* confidence levels, in percent
Confidences == {0, 50, 95, 100}

\* -------------------------------------------------------- random generator
\* np.random.seed(seed): the global generator restarts from the seed,
\* whatever its state s was
\* a slip: the seeding is left out, the generator goes on from its state
np_random_seed_skipped(s, seed) == s

np_random_seed(s, seed) == seed % 64

\* Full-period congruential generators <<multiplier, increment>> standing for
\* numpy's Mersenne Twister: whichever it is, the stream is a function of the
\* generator's state alone
Generators == {<<5, 3>>, <<21, 7>>, <<37, 1>>, <<45, 5>>}

\* the generator's next state
RngNext(g, s) == (g[1] * s + g[2]) % 64

RECURSIVE PowMod(_, _)
\* a^k mod 64
PowMod(a, k) ==
    IF k = 0 THEN 1
    ELSE IF k % 2 = 0
         THEN LET h == PowMod(a, k \div 2) IN (h * h) % 64
         ELSE (a * PowMod(a, k - 1)) % 64

RECURSIVE GeoMod(_, _)
\* 1 + a + ... + a^(k-1) mod 64
GeoMod(a, k) ==
    IF k = 0 THEN 0
    ELSE IF k % 2 = 0
         THEN (GeoMod(a, k \div 2) * (1 + PowMod(a, k \div 2))) % 64
         ELSE (1 + a * GeoMod(a, k - 1)) % 64

\* the state after k draws: RngNext applied k times
RngAdvance(g, s, k) == (PowMod(g[1], k) * s + g[2] * GeoMod(g[1], k)) % 64

\* np.random.choice(n, size=n, replace=True) from state s: n indices in 0..n-1
np_random_choice(g, s, n) == [k \in 1 .. n |-> (RngAdvance(g, s, k) * n) \div 64]

\* ---------------------------------------------------------------- bootstrap
\* x.iloc[indices].values
ResampleX(xs, idx) == [k \in 1 .. Len(idx) |-> xs[idx[k] + 1]]

\* a slip: y is resampled with indices of its own
ResampleYOwnIndices(ys, idx) == [k \in 1 .. Len(idx) |-> ys[((idx[k] + 1) % Len(idx)) + 1]]

\* y.iloc[indices].values
ResampleY(ys, idx) == [k \in 1 .. Len(idx) |-> ys[idx[k] + 1]]

\* v_boot of one resample: the chi-squared of the resample's own table over
\* len(x) and the min_dim of the original table
BootValue(xb, yb, n, min_dim) ==
    IF min_dim > 0
    THEN FSqrt(RDivInt(RDivInt(chi2_contingency(crosstab(xb, yb)), n), min_dim))
    ELSE 0

\* a slip: min_dim left out of the point estimate
PointEstimateOverN(ct) == FSqrt(RDivInt(chi2_contingency(ct), TableTotal(ct)))

\* v = np.sqrt(chi2_stat / (n * min_dim))
PointEstimate(ct) == FSqrt(CramersRadicand(ct))

\* a slip: a distribution without spread is rejected, -1 standing for the error
np_percentile_rejects_constant(a, pos) ==
    LET s    == SortSeq(a, LAMBDA p, q : p < q)
        lo   == pos[1] \div pos[2]
        hi   == Min2(lo + 1, Len(s) - 1)
        fnum == pos[1] % pos[2]
    IN  IF s[1] = s[Len(s)] THEN -1
        ELSE s[lo + 1] + (fnum * (s[hi + 1] - s[lo + 1])) \div pos[2]

\* np.percentile(a, q) by linear interpolation, the position q/100 * (len-1)
\* given as the rational pos
np_percentile(a, pos) ==
    LET s    == SortSeq(a, LAMBDA p, q : p < q)
        lo   == pos[1] \div pos[2]
        hi   == Min2(lo + 1, Len(s) - 1)
        fnum == pos[1] % pos[2]
    IN  s[lo + 1] + (fnum * (s[hi + 1] - s[lo + 1])) \div pos[2]

\* a slip: alpha = 1 - confidence, the halving forgotten
LowerPosNotHalved(conf, len) == Rat((100 - conf) * (len - 1), 100)

\* position of the percentile alpha * 100, alpha = (1 - confidence) / 2
LowerPos(conf, len) == Rat((100 - conf) * (len - 1), 200)

\* a slip: the upper bound taken at the percentile confidence * 100
UpperPosAtConfidence(conf, len) == Rat(conf * (len - 1), 100)

\* position of the percentile (1 - alpha) * 100
UpperPos(conf, len) == Rat((100 + conf) * (len - 1), 200)

NoResult == [fn |-> "none", val |-> 0, ci |-> <<0, 0>>]

\* ------------------------------------------------------------ script steps
InitStat ==
    /\ \E p \in InputPairs \cup {<<ScenarioX, ScenarioY>>} : x = p[1] /\ y = p[2]
    /\ confidence = 95
    /\ pc = "start"
    /\ ret = NoResult
    /\ prev = NoResult
    /\ rng = 0
    /\ draws = 0
    /\ v = 0
    /\ v_bootstrap = <<>>
    /\ indices = <<>>
    /\ x_boot = <<>>
    /\ y_boot = <<>>
    /\ gen \in Generators
    /\ n_vars = 0
    /\ matrix = <<>>
    /\ bi = 0
    /\ bj = 0
    /\ calls = <<>>
    /\ threshold = RZero
    /\ corr_matrix = <<>>
    /\ nodes = <<>>
    /\ chords = <<>>
    /\ prev_layout = <<>>
    /\ contingency_table = <<>>
    /\ labels = <<>>
    /\ panels = <<>>
    /\ delW2mag = <<>>
    /\ Variability = <<>>

bootVars == <<v, v_bootstrap, indices, x_boot, y_boot>>

matVars == <<gen, n_vars, matrix, bi, bj, calls>>

layoutVars == <<threshold, corr_matrix, nodes, chords, prev_layout,
                contingency_table, labels, panels, delW2mag, Variability>>

\* some other code draws from the global generator
OtherRandomDraw ==
    /\ pc \in {"start", "again"}
    /\ draws < MaxOtherDraws
    /\ rng' = RngNext(gen, rng)
    /\ draws' = draws + 1
    /\ UNCHANGED <<x, y, confidence, pc, ret, prev, bootVars, matVars, layoutVars>>

CallCramersV ==
    /\ pc = "start"
    /\ ret' = [fn |-> "cramers_v", val |-> cramers_v(x, y), ci |-> <<0, 0>>]
    /\ pc' = "done"
    /\ UNCHANGED <<x, y, confidence, prev, rng, draws, bootVars, matVars, layoutVars>>

CallPhi ==
    /\ pc = "start"
    /\ ret' = [fn |-> "phi_coefficient", val |-> phi_coefficient(x, y), ci |-> <<0, 0>>]
    /\ pc' = "done"
    /\ UNCHANGED <<x, y, confidence, prev, rng, draws, bootVars, matVars, layoutVars>>

\* cramers_v_with_ci up to the bootstrap loop: the point estimate, the early
\* return of a one-category table, the seeding
CIEnter ==
    /\ pc \in {"start", "again"}
    /\ Len(x) <= MaxN   \* the bootstrap is explored on the bounded series only
    /\ IF pc = "start" THEN confidence' \in Confidences ELSE confidence' = confidence
    /\ draws' = 0
    /\ LET confusion_matrix == crosstab(x, y)
       IN  IF MinDim(confusion_matrix) = 0
           THEN /\ ret' = [fn |-> "cramers_v_with_ci", val |-> 0, ci |-> <<0, 0>>]
                /\ pc' = "done"
                /\ UNCHANGED <<rng, v, v_bootstrap>>
           ELSE /\ v' = PointEstimate(confusion_matrix)
                /\ rng' = np_random_seed(rng, SeedValue)
                /\ v_bootstrap' = <<>>
                /\ pc' = "boot"
                /\ UNCHANGED ret
    /\ UNCHANGED <<x, y, prev, indices, x_boot, y_boot, matVars, layoutVars>>

\* one iteration of the bootstrap loop; y.iloc raises IndexError on a
\* position beyond the end of y
CIResample ==
    /\ pc = "boot"
    /\ Len(v_bootstrap) < NResamples
    /\ LET idx == np_random_choice(gen, rng, Len(x))
       IN  /\ indices' = idx
           /\ x_boot' = ResampleX(x, idx)
           /\ IF \E k \in 1 .. Len(idx) : idx[k] >= Len(y)
              THEN /\ pc' = "error"
                   /\ UNCHANGED <<y_boot, v_bootstrap>>
              ELSE /\ y_boot' = ResampleY(y, idx)
                   /\ v_bootstrap' =
                         Append(v_bootstrap,
                                BootValue(x_boot', y_boot', Len(x), MinDim(crosstab(x, y))))
                   /\ UNCHANGED pc
    /\ rng' = RngAdvance(gen, rng, Len(x))
    /\ UNCHANGED <<x, y, confidence, ret, prev, draws, v, matVars, layoutVars>>

\* the percentile interval and the return
CIReturn ==
    /\ pc = "boot"
    /\ Len(v_bootstrap) = NResamples
    /\ ret' = [fn  |-> "cramers_v_with_ci",
               val |-> v,
               ci  |-> <<np_percentile(v_bootstrap, LowerPos(confidence, NResamples)),
                         np_percentile(v_bootstrap, UpperPos(confidence, NResamples))>>]
    /\ pc' = "done"
    /\ UNCHANGED <<x, y, confidence, prev, rng, draws, bootVars, matVars, layoutVars>>

\* the script goes on to call cramers_v_with_ci a second time with the same
\* columns and the same confidence
CallAgain ==
    /\ pc = "done"
    /\ ret.fn = "cramers_v_with_ci"
    /\ prev.fn = "none"
    /\ prev' = ret
    /\ pc' = "again"
    /\ UNCHANGED <<x, y, confidence, ret, rng, draws, bootVars, matVars, layoutVars>>

NextStat ==
    \/ OtherRandomDraw
    \/ CallCramersV
    \/ CallPhi
    \/ CIEnter
    \/ CIResample
    \/ CIReturn
    \/ CallAgain

SpecStat == InitStat /\ [][NextStat]_vars

\* ------------------------------------------------------------------ floats
\* a cell of a numpy matrix: a finite fixed-point number, nan or inf
Fin(k) == [kind |-> "finite", val |-> k]

NaN == [kind |-> "nan", val |-> 0]

PosInf == [kind |-> "inf", val |-> 0]

IsFinite(f) == f.kind = "finite"

\* == on floats: nan equals nothing, itself included
FloatEq(a, b) == a.kind # "nan" /\ b.kind # "nan" /\ a = b

\* values the pairwise function may return
EffectValues == {Fin(Scale \div 4), Fin(Scale \div 2), NaN, PosInf}

\* ---------------------------------------------------------- matrix builder
\* np.zeros((n, n))
Zeros(n) == [c \in (0 .. n - 1) \X (0 .. n - 1) |-> Fin(0)]

\* a slip: the diagonal is not told apart
IsDiagonalNever(i, j) == FALSE

\* the test `i == j` of the builder's loop
IsDiagonal(i, j) == i = j

\* a slip: only the upper triangle is written
StoreCellUpperOnly(m, i, j, val) == IF i <= j THEN [m EXCEPT ![<<i, j>>] = val] ELSE m

\* matrix[i, j] = val
StoreCell(m, i, j, val) == [m EXCEPT ![<<i, j>>] = val]

\* the loop `for i in range(n): for j in range(n)` advanced by one cell
NextRow(i, j, n) == IF j + 1 < n THEN i ELSE i + 1

NextCol(i, j, n) == IF j + 1 < n THEN j + 1 ELSE 0

RECURSIVE SortedSeqOf(_)
\* the labels of a crosstab index, in pandas' sorted order
SortedSeqOf(S) ==
    IF S = {} THEN <<>>
    ELSE LET m == CHOOSE m \in S : \A o \in S : m <= o
         IN  <<m>> \o SortedSeqOf(S \ {m})

\* the rows kept by mask = (df['YSO_CLASS'] == i) | (df['YSO_CLASS'] == j)
MaskRows(xs, i, j) ==
    SelectSeq([k \in 1 .. Len(xs) |-> k], LAMBDA k : xs[k] = i \/ xs[k] = j)

\* column s of df[mask]
SubsetColumn(s, rows) == [k \in 1 .. Len(rows) |-> s[rows[k]]]

\* one cell of the per-class matrix of generate_improved_visualizations: 1.0
\* on the diagonal, else Cramer's V of the rows of classes i and j
PerClassCell(xs, ys, i, j, old) ==
    IF i = j THEN Fin(Scale)
    ELSE LET rows == MaskRows(xs, i, j)
         IN  IF Len(rows) > 0
             THEN Fin(cramers_v(SubsetColumn(xs, rows), SubsetColumn(ys, rows)))
             ELSE old

InitMatrix ==
    /\ \/ /\ pc = "build"
          /\ x = <<>>
          /\ y = <<>>
          /\ n_vars \in 0 .. NCatVars
       \/ /\ pc = "perclass"
          /\ \E p \in InputPairs : x = p[1] /\ y = p[2]
          /\ n_vars = Cardinality(crosstab(x, y).rows)
    /\ matrix = Zeros(n_vars)
    /\ bi = 0
    /\ bj = 0
    /\ calls = <<>>
    /\ confidence = 95
    /\ ret = NoResult
    /\ prev = NoResult
    /\ rng = 0
    /\ draws = 0
    /\ v = 0
    /\ v_bootstrap = <<>>
    /\ indices = <<>>
    /\ x_boot = <<>>
    /\ y_boot = <<>>
    /\ gen = <<5, 3>>
    /\ threshold = RZero
    /\ corr_matrix = <<>>
    /\ nodes = <<>>
    /\ chords = <<>>
    /\ prev_layout = <<>>
    /\ contingency_table = <<>>
    /\ labels = <<>>
    /\ panels = <<>>
    /\ delW2mag = <<>>
    /\ Variability = <<>>

statVars == <<x, y, confidence, ret, prev, rng, draws, bootVars, gen>>

\* one cell of build_effect_size_matrix; val is what effect_func returns
BuildStep ==
    /\ pc = "build"
    /\ bi < n_vars
    /\ IF IsDiagonal(bi, bj)
       THEN /\ matrix' = StoreCell(matrix, bi, bj, Fin(Scale))
            /\ UNCHANGED calls
       ELSE \E val \in EffectValues :
                /\ matrix' = StoreCell(matrix, bi, bj, val)
                /\ calls' = Append(calls, <<bi, bj, val>>)
    /\ bi' = NextRow(bi, bj, n_vars)
    /\ bj' = NextCol(bi, bj, n_vars)
    /\ UNCHANGED <<pc, n_vars, statVars, layoutVars>>

\* return pd.DataFrame(matrix, ...)
BuildReturn ==
    /\ pc = "build"
    /\ bi = n_vars
    /\ pc' = "built"
    /\ UNCHANGED <<n_vars, matrix, bi, bj, calls, statVars, layoutVars>>

\* one cell of the per-class loop over ct_yso_var.index
PerClassStep ==
    /\ pc = "perclass"
    /\ bi < n_vars
    /\ LET index == SortedSeqOf(crosstab(x, y).rows)
           i == index[bi + 1]
           j == index[bj + 1]
           val == PerClassCell(x, y, i, j, matrix[<<bi, bj>>])
       IN  /\ matrix' = StoreCell(matrix, bi, bj, val)
           /\ calls' = IF i = j THEN calls ELSE Append(calls, <<bi, bj, val>>)
    /\ bi' = NextRow(bi, bj, n_vars)
    /\ bj' = NextCol(bi, bj, n_vars)
    /\ UNCHANGED <<pc, n_vars, statVars, layoutVars>>

PerClassReturn ==
    /\ pc = "perclass"
    /\ bi = n_vars
    /\ pc' = "perclass_built"
    /\ UNCHANGED <<n_vars, matrix, bi, bj, calls, statVars, layoutVars>>

NextMatrix == BuildStep \/ BuildReturn \/ PerClassStep \/ PerClassReturn

SpecMatrix == InitMatrix /\ [][NextMatrix]_vars

\* ------------------------------------------------------------ chord layout
\* Values of the layout (cell values, thresholds, widths, angles) are exact
\* rationals; an angle is given in turns, k / n standing for 2 * pi * k / n.
RSub(p, q) == RAdd(p, <<-q[1], q[2]>>)

RMul(p, q) == Rat(p[1] * q[1], p[2] * q[2])

RLess(p, q) == p[1] * q[2] < q[1] * p[2]

RAbs(p) == <<Abs(p[1]), p[2]>>

RMin(p, q) == IF RLeq(p, q) THEN p ELSE q

\* threshold=0.001, the default of create_matplotlib_chord
DefaultThreshold == Rat(1, 1000)

\* threshold = 0.15 of the network of correlations
NetThreshold == Rat(3, 20)

\* thresholds the layouts are run with: the two the program sets first, then
\* two more and one above every value a table can hold
Thresholds == {DefaultThreshold, Rat(1, 10), NetThreshold, Rat(1, 2), <<MaxN + 1, 1>>}

\* list(contingency_table.index)
cats1(ct) == SortedSeqOf(ct.rows)

\* list(contingency_table.columns)
cats2(ct) == SortedSeqOf(ct.cols)

\* data.max().max()
data_max(ct) ==
    LET cells == ct.rows \X ct.cols
    IN  ct.cnt[CHOOSE c \in cells : \A d \in cells : ct.cnt[d] <= ct.cnt[c]]

\* a slip: the table is drawn without the normalisation
data_norm_raw(ct, r, c) == <<ct.cnt[<<r, c>>], 1>>

\* data_norm.iloc[i, j] for the cell of labels r, c
data_norm(ct, r, c) ==
    IF data_max(ct) > 0 THEN Rat(ct.cnt[<<r, c>>], data_max(ct))
    ELSE <<ct.cnt[<<r, c>>], 1>>

\* a slip: endpoint left at its default, the last angle is the full turn
linspace_with_endpoint(n) ==
    IF n = 1 THEN <<RZero>> ELSE [k \in 1 .. n |-> Rat(k - 1, n - 1)]

\* np.linspace(0, 2*np.pi, n, endpoint=False), in turns
linspace(n) == [k \in 1 .. n |-> Rat(k - 1, n)]

\* a slip: only the cells that will get a chord are summed
SummedCellsSurviving(ct) ==
    {c \in ct.rows \X ct.cols : RLess(threshold, data_norm(ct, c[1], c[2]))}

\* the cells that .sum() over a row or a column of contingency_table adds
SummedCells(ct) == ct.rows \X ct.cols

\* node_sizes: the row sums, then the column sums
node_sizes(ct) ==
    LET rs == cats1(ct)
        cs == cats2(ct)
        cells == SummedCells(ct)
    IN  [k \in 1 .. Len(rs) + Len(cs) |->
           IF k <= Len(rs)
           THEN ISum(ct.cnt, {c \in cells : c[1] = rs[k]})
           ELSE ISum(ct.cnt, {c \in cells : c[2] = cs[k - Len(rs)]})]

\* 0 / 0, numpy's nan
RNaN == <<0, 0>>

\* max(node_sizes)
MaxOf(sizes) == sizes[CHOOSE k \in DOMAIN sizes : \A l \in DOMAIN sizes : sizes[l] <= sizes[k]]

\* a slip: the sizes are normalised by their sum
node_sizes_norm_by_total(sizes) ==
    LET total == ISum(sizes, DOMAIN sizes)
    IN  [k \in DOMAIN sizes |-> IF total > 0 THEN Rat(3 * sizes[k], 10 * total) ELSE RNaN]

\* np.array(node_sizes) / max(node_sizes) * 0.3; 0 / 0 is nan in numpy
node_sizes_norm(sizes) ==
    [k \in DOMAIN sizes |->
       IF MaxOf(sizes) > 0 THEN Rat(3 * sizes[k], 10 * MaxOf(sizes)) ELSE RNaN]

\* a slip: every non-zero cell gets a chord
SurvivesIgnoringThreshold(value, thr) == RLess(RZero, value)

\* value > threshold
Survives(value, thr) == RLess(thr, value)

\* the line drawn by create_matplotlib_chord for the cell (i, j)
ChordOf(ct, i, j) ==
    LET value == data_norm(ct, cats1(ct)[i + 1], cats2(ct)[j + 1])
    IN  [src       |-> i,
         dst       |-> Len(cats1(ct)) + j,
         value     |-> value,
         r         |-> RAdd(Rat(8, 10), RMul(Rat(1, 10), value)),
         alpha     |-> RAdd(Rat(3, 10), RMul(Rat(4, 10), value)),
         linewidth |-> RMul(<<2, 1>>, value),
         color     |-> i]

\* linewidth = 0.5 + (corr_val - threshold) * 8
NetLinewidth(corr_val, thr) == RAdd(Rat(1, 2), RMul(RSub(corr_val, thr), <<8, 1>>))

\* the line drawn by the network of correlations for the pair (i, j)
NetChordOf(m, i, j, thr) ==
    LET corr_val == RAbs(m[<<i, j>>])
    IN  [src       |-> i,
         dst       |-> j,
         value     |-> corr_val,
         alpha     |-> RMin(RAdd(Rat(3, 10), RMul(corr_val, Rat(6, 10))), Rat(9, 10)),
         linewidth |-> NetLinewidth(corr_val, thr),
         color     |-> IF RLess(m[<<i, j>>], RZero) THEN "red" ELSE "blue"]

\* a slip: the inner loop runs over every column
NetFirstColFull(i) == 0

\* for j in range(i+1, n_vars)
NetFirstCol(i) == i + 1

\* the loops of the network advanced by one pair
NetNextRow(i, j, n) == IF j + 1 < n THEN i ELSE i + 1

NetNextCol(i, j, n) == IF j + 1 < n THEN j + 1 ELSE NetFirstCol(i + 1)

\* off-diagonal values of the correlation matrices drawn as input
CorrValues == {Rat(-1, 2), Rat(1, 20), Rat(1, 5), Rat(1, 2)}

\* the correlation matrix with the values u above the diagonal: symmetric,
\* 1 on the diagonal
CorrMatrixOf(n, u) ==
    [c \in (0 .. n - 1) \X (0 .. n - 1) |->
       IF c[1] = c[2] THEN ROne ELSE u[<<Min2(c[1], c[2]), Max2(c[1], c[2])>>]]

CorrMatrices ==
    UNION {{CorrMatrixOf(n, u) :
              u \in [{c \in (0 .. n - 1) \X (0 .. n - 1) : c[1] < c[2]} -> CorrValues]} :
           n \in 1 .. MaxVars}

\* len(corr_matrix.columns)
NumColumns(m) == Cardinality({c[2] : c \in DOMAIN m})

InitLayout ==
    /\ \/ /\ pc = "chord"
          /\ \E p \in InputPairs : x = p[1] /\ y = p[2]
          /\ contingency_table = crosstab(x, y)
          /\ corr_matrix = <<>>
          /\ threshold = DefaultThreshold
       \/ /\ pc = "net"
          /\ x = <<>>
          /\ y = <<>>
          /\ contingency_table = <<>>
          /\ corr_matrix \in CorrMatrices
          /\ threshold = NetThreshold
    /\ labels = <<>>
    /\ panels = <<>>
    /\ delW2mag = <<>>
    /\ Variability = <<>>
    /\ nodes = <<>>
    /\ chords = <<>>
    /\ prev_layout = <<>>
    /\ n_vars = 0
    /\ matrix = <<>>
    /\ bi = 0
    /\ bj = 0
    /\ calls = <<>>
    /\ confidence = 95
    /\ ret = NoResult
    /\ prev = NoResult
    /\ rng = 0
    /\ draws = 0
    /\ v = 0
    /\ v_bootstrap = <<>>
    /\ indices = <<>>
    /\ x_boot = <<>>
    /\ y_boot = <<>>
    /\ gen = <<5, 3>>

\* np.degrees(angle) of an angle given in turns
degrees(angle) == RMul(<<360, 1>>, angle)

\* rotation = np.degrees(angle); if angle > np.pi: rotation = rotation + 180
label_rotation(angle) ==
    IF RLess(Rat(1, 2), angle) THEN RAdd(degrees(angle), <<180, 1>>) ELSE degrees(angle)

\* np.arctan2(y, x) * 180 / np.pi of the point at the given angle: in (-180, 180]
arctan2_degrees(angle) ==
    IF RLess(Rat(1, 2), angle) THEN RSub(degrees(angle), <<360, 1>>) ELSE degrees(angle)

\* if angle > 90 and angle < 270: set_rotation(angle - 180) else set_rotation(angle)
improved_rotation(turn) ==
    LET angle == arctan2_degrees(turn)
    IN  IF RLess(<<90, 1>>, angle) /\ RLess(angle, <<270, 1>>)
        THEN RSub(angle, <<180, 1>>) ELSE angle

\* what the layout actions leave alone
idleVars == <<x, y, confidence, ret, prev, rng, draws, bootVars, gen, matrix, calls,
              corr_matrix, contingency_table, panels, delW2mag, Variability>>

\* create_matplotlib_chord up to the loop over the cells: the categories, the
\* angles, the node sizes
ChordNodes ==
    /\ pc = "chord"
    /\ LET all_cats == cats1(contingency_table) \o cats2(contingency_table)
           n_cats   == Len(all_cats)
           angles   == linspace(n_cats)
           sizes    == node_sizes_norm(node_sizes(contingency_table))
       IN  nodes' = [k \in 1 .. n_cats |->
                       [label |-> all_cats[k], angle |-> angles[k], size |-> sizes[k]]]
    /\ chords' = <<>>
    /\ labels' = <<>>
    /\ bi' = 0
    /\ bj' = 0
    /\ pc' = "chord_loop"
    /\ UNCHANGED <<idleVars, n_vars, threshold, prev_layout>>

\* one cell of the loop over cats1 and cats2
ChordStep ==
    /\ pc = "chord_loop"
    /\ LET nrows == Len(cats1(contingency_table))
           ncols == Len(cats2(contingency_table))
           c     == ChordOf(contingency_table, bi, bj)
       IN  /\ bi < nrows
           /\ chords' = IF Survives(c.value, threshold) THEN Append(chords, c) ELSE chords
           /\ bi' = NextRow(bi, bj, ncols)
           /\ bj' = NextCol(bi, bj, ncols)
    /\ UNCHANGED <<idleVars, n_vars, threshold, nodes, prev_layout, pc, labels>>

\* the labels, the savefig and the return
ChordReturn ==
    /\ pc = "chord_loop"
    /\ bi = Len(cats1(contingency_table))
    /\ labels' = [k \in DOMAIN nodes |->
                    [angle    |-> nodes[k].angle,
                     rotation |-> label_rotation(nodes[k].angle),
                     rotated  |-> TRUE]]
    /\ pc' = "chord_done"
    /\ UNCHANGED <<idleVars, n_vars, threshold, nodes, chords, prev_layout, bi, bj>>

\* the network of correlations up to the loop over the pairs: the angles, the
\* scatter of the nodes, the labels
NetNodes ==
    /\ pc = "net"
    /\ n_vars' = NumColumns(corr_matrix)
    /\ LET angles == linspace(n_vars')
       IN  nodes' = [k \in 1 .. n_vars' |->
                       [label |-> k - 1, angle |-> angles[k], size |-> <<3000, 1>>]]
    /\ chords' = <<>>
    /\ labels' = [k \in 1 .. n_vars' |->
                    [angle |-> linspace(n_vars')[k], rotation |-> RZero, rotated |-> FALSE]]
    /\ bi' = 0
    /\ bj' = NetFirstCol(0)
    /\ pc' = "net_loop"
    /\ UNCHANGED <<idleVars, threshold, prev_layout>>

\* one pair of the loop over i and j > i
NetStep ==
    /\ pc = "net_loop"
    /\ bi < n_vars
    /\ bj < n_vars
    /\ LET c == NetChordOf(corr_matrix, bi, bj, threshold)
       IN  chords' = IF Survives(c.value, threshold) THEN Append(chords, c) ELSE chords
    /\ bi' = NetNextRow(bi, bj, n_vars)
    /\ bj' = NetNextCol(bi, bj, n_vars)
    /\ UNCHANGED <<idleVars, n_vars, threshold, nodes, prev_layout, pc, labels>>

\* the loops are over: styling, legend, savefig
NetReturn ==
    /\ pc = "net_loop"
    /\ (bi >= n_vars \/ bj >= n_vars)
    /\ pc' = "net_done"
    /\ UNCHANGED <<idleVars, n_vars, threshold, nodes, chords, prev_layout, bi, bj, labels>>

\* improve_chord_labels on the axes of the network: every text is turned to
\* the angle of its position
ImproveLabels ==
    /\ pc = "net_done"
    /\ labels # <<>>
    /\ \A k \in DOMAIN labels : ~labels[k].rotated
    /\ labels' = [k \in DOMAIN labels |->
                    [angle    |-> labels[k].angle,
                     rotation |-> improved_rotation(labels[k].angle),
                     rotated  |-> TRUE]]
    /\ UNCHANGED <<idleVars, n_vars, threshold, nodes, chords, prev_layout, bi, bj, pc>>

\* the pairs i < j of n variables
UpperPairs(n) == {c \in (0 .. n - 1) \X (0 .. n - 1) : c[1] < c[2]}

RECURSIVE PairsInOrder(_, _)
\* the pairs of S row by row
PairsInOrder(S, n) ==
    IF S = {} THEN <<>>
    ELSE LET m == CHOOSE m \in S : \A o \in S : m[1] * n + m[2] <= o[1] * n + o[2]
         IN  <<m>> \o PairsInOrder(S \ {m}, n)

\* the color the plotting library gives the chords leaving the i-th variable:
\* the i-th color of its cycle, none of them the literal red or blue
SourceColor(i) == <<"C0", "C1", "C2", "C3", "C4", "C5", "C6", "C7", "C8", "C9">>[(i % 10) + 1]

\* create_signed_correlation_chord, and the main of
\* generate_chord_correlation_metrics: the absolute values of corr_matrix are
\* handed to the chord plot of the plotting library, which draws the cells
\* above its threshold (a cell at the threshold either way) and takes a
\* chord's color from its source variable
SignedChord ==
    /\ pc = "net"
    /\ prev_layout = <<>>
    /\ LET abs_corr == [c \in DOMAIN corr_matrix |-> RAbs(corr_matrix[c])]
           n        == NumColumns(abs_corr)
       IN  \E atcut \in SUBSET {c \in UpperPairs(n) : abs_corr[c] = threshold} :
               LET above == {c \in UpperPairs(n) : RLess(threshold, abs_corr[c])}
                   drawn == PairsInOrder(above \cup atcut, n)
               IN  chords' = [k \in 1 .. Len(drawn) |->
                                [src   |-> drawn[k][1],
                                 dst   |-> drawn[k][2],
                                 value |-> abs_corr[drawn[k]],
                                 color |-> SourceColor(drawn[k][1])]]
    /\ pc' = "signed_done"
    /\ UNCHANGED <<idleVars, n_vars, threshold, nodes, prev_layout, bi, bj, labels>>

\* the same table is laid out once more, under another threshold
LayoutAgain ==
    /\ pc \in {"chord_done", "net_done"}
    /\ prev_layout = <<>>
    /\ prev_layout' = <<[threshold |-> threshold, nodes |-> nodes, chords |-> chords]>>
    /\ threshold' \in Thresholds \ {threshold}
    /\ pc' = IF pc = "chord_done" THEN "chord" ELSE "net"
    /\ UNCHANGED <<idleVars, n_vars, nodes, chords, bi, bj, labels>>

NextLayout ==
    \/ ChordNodes
    \/ ChordStep
    \/ ChordReturn
    \/ NetNodes
    \/ NetStep
    \/ NetReturn
    \/ ImproveLabels
    \/ SignedChord
    \/ LayoutAgain

SpecLayout == InitLayout /\ [][NextLayout]_vars

\* ------------------------------------------------- rare-category panels
\* the largest count of a cell of the tables the panels are made from
MaxCell == 2

\* the column labels of the tables the panels are made from
ZoomColumns == {1, 2}

\* contingency_table.loc[R, C]
SubTable(ct, R, C) == [rows |-> R, cols |-> C, cnt |-> [c \in R \X C |-> ct.cnt[c]]]

\* the cross tabulations over the row labels R and the column labels C: every
\* label of a cross tabulation was observed at least once
ZoomTablesOf(R, C) ==
    {SubTable([cnt |-> f], R, C) :
       f \in {g \in [R \X C -> 0 .. MaxCell] :
                /\ \A r \in R : \E c \in C : g[<<r, c>>] > 0
                /\ \A c \in C : \E r \in R : g[<<r, c>>] > 0}}

ZoomTables ==
    UNION {ZoomTablesOf(s[1], s[2]) :
             s \in (SUBSET Categories \ {{}}) \X (SUBSET ZoomColumns \ {{}})}

\* contingency_table.sum(axis=1)
row_totals(ct) == [r \in ct.rows |-> RowTotal(ct, r)]

\* contingency_table.sum(axis=0)
col_totals(ct) == [c \in ct.cols |-> ColTotal(ct, c)]

RECURSIVE SortedValues(_, _)
\* the values of f over S, in ascending order
SortedValues(f, S) ==
    IF S = {} THEN <<>>
    ELSE LET m == CHOOSE m \in S : \A o \in S : f[m] <= f[o]
         IN  <<f[m]>> \o SortedValues(f, S \ {m})

\* Series.median(): the middle value, or the mean of the two middle values
median(totals) ==
    LET s == SortedValues(totals, DOMAIN totals)
        n == Len(s)
    IN  IF n % 2 = 1 THEN <<s[(n + 1) \div 2], 1>>
        ELSE Rat(s[n \div 2] + s[(n \div 2) + 1], 2)

\* a slip: the rows at the median are kept too
AtOrBelowMedian(total, med) == RLeq(<<total, 1>>, med)

\* row_totals < median_row
BelowMedian(total, med) == RLess(<<total, 1>>, med)

\* contingency_table[row_totals < median_row]
rare_rows(ct) ==
    SubTable(ct, {r \in ct.rows : BelowMedian(row_totals(ct)[r], median(row_totals(ct)))},
             ct.cols)

\* contingency_table[[c for c in contingency_table.columns if col_totals[c] < median_col]]
rare_cols(ct) ==
    SubTable(ct, ct.rows,
             {c \in ct.cols : BelowMedian(col_totals(ct)[c], median(col_totals(ct)))})

\* contingency_table.loc[rare_rows.index, rare_cols.columns]
rare_both(ct) == SubTable(ct, rare_rows(ct).rows, rare_cols(ct).cols)

\* a slip: the panel is drawn from the counts, without the normalisation
focused_data_norm_raw(ct, r, c) == <<ct.cnt[<<r, c>>], 1>>

\* data_norm of make_focused_chord for the cell of labels r, c
focused_data_norm(ct, r, c) ==
    LET cells == ct.rows \X ct.cols
        top   == CHOOSE d \in cells : \A e \in cells : ct.cnt[e] <= ct.cnt[d]
    IN  IF ct.cnt[top] > 0 THEN Rat(ct.cnt[<<r, c>>], ct.cnt[top])
        ELSE <<ct.cnt[<<r, c>>], 1>>

\* the line make_focused_chord draws for the cell (i, j)
FocusedChordOf(ct, i, j) ==
    LET value == focused_data_norm(ct, cats1(ct)[i + 1], cats2(ct)[j + 1])
    IN  [src       |-> i,
         dst       |-> Len(cats1(ct)) + j,
         value     |-> value,
         r         |-> RAdd(Rat(8, 10), RMul(Rat(1, 10), value)),
         alpha     |-> RAdd(Rat(3, 10), RMul(Rat(4, 10), value)),
         linewidth |-> RMul(<<2, 1>>, value),
         color     |-> i]

\* if value > 0.001
FocusedSurvives(c) == RLess(Rat(1, 1000), c.value)

\* make_focused_chord(ct, ax, min_count): the panel it draws
make_focused_chord(ct, min_count) ==
    LET nrows == Len(cats1(ct))
        ncols == Len(cats2(ct))
        cells == [k \in 1 .. nrows * ncols |->
                    FocusedChordOf(ct, (k - 1) \div ncols, (k - 1) % ncols)]
    IN  [title  |-> min_count,
         table  |-> ct,
         drawn  |-> TRUE,
         angles |-> linspace(nrows + ncols),
         labels |-> [k \in 1 .. nrows + ncols |-> label_rotation(linspace(nrows + ncols)[k])],
         chords |-> SelectSeq(cells, FocusedSurvives)]

\* the panel left empty: its if is false
SkippedPanel(ct, min_count) ==
    [title |-> min_count, table |-> ct, drawn |-> FALSE,
     angles |-> <<>>, labels |-> <<>>, chords |-> <<>>]

InitZoom ==
    /\ pc = "zoom"
    /\ contingency_table \in ZoomTables
    /\ threshold = DefaultThreshold
    /\ x = <<>>
    /\ y = <<>>
    /\ corr_matrix = <<>>
    /\ labels = <<>>
    /\ panels = <<>>
    /\ delW2mag = <<>>
    /\ Variability = <<>>
    /\ nodes = <<>>
    /\ chords = <<>>
    /\ prev_layout = <<>>
    /\ n_vars = 0
    /\ matrix = <<>>
    /\ bi = 0
    /\ bj = 0
    /\ calls = <<>>
    /\ confidence = 95
    /\ ret = NoResult
    /\ prev = NoResult
    /\ rng = 0
    /\ draws = 0
    /\ v = 0
    /\ v_bootstrap = <<>>
    /\ indices = <<>>
    /\ x_boot = <<>>
    /\ y_boot = <<>>
    /\ gen = <<5, 3>>

\* what the steps of create_zoomed_chord_rare_categories leave alone
zoomIdle == <<x, y, confidence, ret, prev, rng, draws, bootVars, gen, matrix, calls,
              corr_matrix, delW2mag, Variability, n_vars, threshold, nodes, chords,
              prev_layout, bi, bj, labels>>

\* Panel 1: All data
ZoomPanelAll ==
    /\ pc = "zoom"
    /\ panels' = <<make_focused_chord(contingency_table, "All data")>>
    /\ pc' = "zoom_rows"
    /\ UNCHANGED <<zoomIdle, contingency_table>>

\* Panel 2: Only rows with count < median
ZoomPanelRows ==
    /\ pc = "zoom_rows"
    /\ LET rare == rare_rows(contingency_table)
       IN  panels' = Append(panels,
                            IF Cardinality(rare.rows) > 0
                            THEN make_focused_chord(rare, "Row count")
                            ELSE SkippedPanel(rare, "Row count"))
    /\ pc' = "zoom_cols"
    /\ UNCHANGED <<zoomIdle, contingency_table>>

\* Panel 3: Only columns with count < median
ZoomPanelCols ==
    /\ pc = "zoom_cols"
    /\ LET rare == rare_cols(contingency_table)
       IN  panels' = Append(panels,
                            IF Cardinality(rare.cols) > 0
                            THEN make_focused_chord(rare, "Col count")
                            ELSE SkippedPanel(rare, "Col count"))
    /\ pc' = "zoom_both"
    /\ UNCHANGED <<zoomIdle, contingency_table>>

\* Panel 4: Only rare in both dimensions, then savefig
ZoomPanelBoth ==
    /\ pc = "zoom_both"
    /\ LET rare == rare_both(contingency_table)
       IN  panels' = Append(panels,
                            IF Cardinality(rare.rows) > 0 /\ Cardinality(rare.cols) > 0
                            THEN make_focused_chord(rare, "Both dimensions rare")
                            ELSE SkippedPanel(rare, "Both dimensions rare"))
    /\ pc' = "zoom_done"
    /\ UNCHANGED <<zoomIdle, contingency_table>>

\* create_matplotlib_chord is called, with its default threshold, on the
\* table of one of the panels drawn
ChordOnPanel ==
    /\ pc = "zoom_done"
    /\ \E k \in 1 .. Len(panels) :
           /\ panels[k].drawn
           /\ contingency_table' = panels[k].table
    /\ pc' = "chord"
    /\ UNCHANGED <<zoomIdle, panels>>

NextZoom ==
    \/ ZoomPanelAll
    \/ ZoomPanelRows
    \/ ZoomPanelCols
    \/ ZoomPanelBoth
    \/ ChordOnPanel
    \/ ChordNodes
    \/ ChordStep
    \/ ChordReturn

SpecZoom == InitZoom /\ [][NextZoom]_vars

\* ------------------------------------------------------ mismatched shapes
\* two columns of different lengths, listed by the category of x
UnequalPairs ==
    UNION {{p \in SeriesOfLen(s[1]) \X SeriesOfLen(s[2]) : IsSorted(p[1])} :
             s \in {t \in (1 .. MaxN) \X (1 .. MaxN) : t[1] # t[2]}}

\* the tables with other than as many rows as columns
NonSquareTables == {ct \in ZoomTables : Cardinality(ct.rows) # Cardinality(ct.cols)}

\* a statistic is called with two columns of different lengths, or the chord
\* layout with a table that is not square
InitShape ==
    /\ \/ /\ pc = "start"
          /\ \E p \in UnequalPairs : x = p[1] /\ y = p[2]
          /\ contingency_table = <<>>
       \/ /\ pc = "chord"
          /\ x = <<>>
          /\ y = <<>>
          /\ contingency_table \in NonSquareTables
    /\ threshold = DefaultThreshold
    /\ corr_matrix = <<>>
    /\ labels = <<>>
    /\ panels = <<>>
    /\ delW2mag = <<>>
    /\ Variability = <<>>
    /\ nodes = <<>>
    /\ chords = <<>>
    /\ prev_layout = <<>>
    /\ n_vars = 0
    /\ matrix = <<>>
    /\ bi = 0
    /\ bj = 0
    /\ calls = <<>>
    /\ confidence = 95
    /\ ret = NoResult
    /\ prev = NoResult
    /\ rng = 0
    /\ draws = 0
    /\ v = 0
    /\ v_bootstrap = <<>>
    /\ indices = <<>>
    /\ x_boot = <<>>
    /\ y_boot = <<>>
    /\ gen = <<5, 3>>

NextShape ==
    \/ CallCramersV
    \/ CallPhi
    \/ CIEnter
    \/ CIResample
    \/ CIReturn
    \/ ChordNodes
    \/ ChordStep
    \/ ChordReturn

SpecShape == InitShape /\ [][NextShape]_vars

\* ------------------------------------------------------- verification
\* values of delW2mag drawn as input: below, at and above the two boundaries
DelValues == {Rat(1, 10), Rat(1, 5), Rat(3, 10), Rat(1, 2), Rat(7, 10)}

\* a slip: a value at a boundary falls into the category below it
categorize_variability_inclusive(value) ==
    IF RLeq(value, Rat(1, 5)) THEN "Low"
    ELSE IF RLeq(value, Rat(1, 2)) THEN "Medium"
    ELSE "High"

\* categorize_variability for one source: Low below 0.2, Medium below 0.5,
\* High from 0.5 on
categorize_variability(value) ==
    IF RLess(value, Rat(1, 5)) THEN "Low"
    ELSE IF RLess(value, Rat(1, 2)) THEN "Medium"
    ELSE "High"

\* (df['Variability'] == value).sum()
CountEqual(s, value) == Cardinality({k \in 1 .. Len(s) : s[k] = value})

\* df['delW2mag'] < 0.2
LowMask(value) == RLess(value, Rat(2, 10))

\* (df['delW2mag'] >= 0.2) & (df['delW2mag'] < 0.5)
MediumMask(value) == RLeq(Rat(2, 10), value) /\ RLess(value, Rat(5, 10))

\* df['delW2mag'] >= 0.5
HighMask(value) == RLeq(Rat(5, 10), value)

\* the sum of the products of two columns
SumProd(a, b) == ISum([k \in 1 .. Len(a) |-> a[k] * b[k]], 1 .. Len(a))

\* n times the sum of the products of deviations from the means
Codeviation(a, b) ==
    Len(a) * SumProd(a, b) - ISum(a, 1 .. Len(a)) * ISum(b, 1 .. Len(b))

\* a slip: the regression slope of b on a, the codeviation over the variance
\* of a alone
pearson_as_slope(a, b) ==
    IF Codeviation(a, a) = 0 \/ Codeviation(b, b) = 0 THEN RZero
    ELSE LET mag == (Abs(Codeviation(a, b)) * Scale) \div Codeviation(a, a)
         IN  Rat(IF Codeviation(a, b) < 0 THEN -mag ELSE mag, Scale)

\* the Pearson correlation of two columns brought to z-scores: the mean of
\* the products of the z-scores, which is the codeviation over the root of
\* the product of the two variances; a column without spread has no z-score
\* and its correlations are coerced to 0
pearson(a, b) ==
    IF Codeviation(a, a) = 0 \/ Codeviation(b, b) = 0 THEN RZero
    ELSE LET mag == FSqrt(Rat(Codeviation(a, b) * Codeviation(a, b),
                              Codeviation(a, a) * Codeviation(b, b)))
         IN  Rat(IF Codeviation(a, b) < 0 THEN -mag ELSE mag, Scale)

\* compute_correlation_matrix(df, numeric_cols, standardize=True); the
\* diagonal of a column without spread is 1.0 by convention
compute_correlation_matrix(cols) ==
    [c \in (0 .. Len(cols) - 1) \X (0 .. Len(cols) - 1) |->
       IF c[1] = c[2] /\ Codeviation(cols[c[1] + 1], cols[c[1] + 1]) = 0 THEN ROne
       ELSE pearson(cols[c[1] + 1], cols[c[2] + 1])]

\* the numeric columns of the data frame: x, y and 2 * x + 3
numeric_cols == <<x, y, [k \in 1 .. Len(x) |-> 2 * x[k] + 3]>>

InitVerify ==
    /\ \/ /\ pc = "categorize"
          /\ delW2mag \in UNION {[1 .. n -> DelValues] : n \in 1 .. MaxN}
          /\ x = <<>>
          /\ y = <<>>
       \/ /\ pc = "correlate"
          /\ delW2mag = <<>>
          /\ \E p \in InputPairs : x = p[1] /\ y = p[2]
    /\ Variability = <<>>
    /\ contingency_table = <<>>
    /\ threshold = RZero
    /\ corr_matrix = <<>>
    /\ labels = <<>>
    /\ panels = <<>>
    /\ nodes = <<>>
    /\ chords = <<>>
    /\ prev_layout = <<>>
    /\ n_vars = 0
    /\ matrix = <<>>
    /\ bi = 0
    /\ bj = 0
    /\ calls = <<>>
    /\ confidence = 95
    /\ ret = NoResult
    /\ prev = NoResult
    /\ rng = 0
    /\ draws = 0
    /\ v = 0
    /\ v_bootstrap = <<>>
    /\ indices = <<>>
    /\ x_boot = <<>>
    /\ y_boot = <<>>
    /\ gen = <<5, 3>>

\* what the verification steps leave alone
verifyIdle == <<x, y, confidence, ret, prev, rng, draws, bootVars, gen, matrix, calls,
                contingency_table, panels, delW2mag, n_vars, threshold, nodes, chords,
                prev_layout, bi, bj, labels>>

\* df['Variability'] = categorize_variability(df, 'delW2mag')
Categorize ==
    /\ pc = "categorize"
    /\ Variability' = [k \in 1 .. Len(delW2mag) |-> categorize_variability(delW2mag[k])]
    /\ pc' = "categorized"
    /\ UNCHANGED <<verifyIdle, corr_matrix>>

\* verify_representation: the three masks and the three assertions on the
\* counts
VerifyRepresentation ==
    /\ pc = "categorized"
    /\ LET low    == {k \in 1 .. Len(delW2mag) : LowMask(delW2mag[k])}
           medium == {k \in 1 .. Len(delW2mag) : MediumMask(delW2mag[k])}
           high   == {k \in 1 .. Len(delW2mag) : HighMask(delW2mag[k])}
       IN  pc' = IF /\ Cardinality(low) = CountEqual(Variability, "Low")
                    /\ Cardinality(medium) = CountEqual(Variability, "Medium")
                    /\ Cardinality(high) = CountEqual(Variability, "High")
                 THEN "representation_verified"
                 ELSE "AssertionError"
    /\ UNCHANGED <<verifyIdle, corr_matrix, Variability>>

\* corr = compute_correlation_matrix(df, numeric_cols, standardize=True)
Correlate ==
    /\ pc = "correlate"
    /\ corr_matrix' = compute_correlation_matrix(numeric_cols)
    /\ pc' = "correlated"
    /\ UNCHANGED <<verifyIdle, Variability>>

\* verify_correlations: the assertions that corr is symmetric and that its
\* diagonal is all ones
VerifyCorrelations ==
    /\ pc = "correlated"
    /\ LET is_symmetric  == \A c \in DOMAIN corr_matrix :
                                corr_matrix[c] = corr_matrix[<<c[2], c[1]>>]
           diag_all_ones == \A c \in DOMAIN corr_matrix :
                                c[1] = c[2] => corr_matrix[c] = ROne
       IN  pc' = IF is_symmetric /\ diag_all_ones
                 THEN "correlations_verified" ELSE "AssertionError"
    /\ UNCHANGED <<verifyIdle, corr_matrix, Variability>>

NextVerify ==
    \/ Categorize
    \/ VerifyRepresentation
    \/ Correlate
    \/ VerifyCorrelations

SpecVerify == InitVerify /\ [][NextVerify]_vars

\* ================================================================= claims
Range(s) == {s[k] : k \in 1 .. Len(s)}

StatReturned(f) == pc = "done" /\ ret.fn = f

\* one of the two series has a single distinct value
OneCategory == Cardinality(Range(x)) = 1 \/ Cardinality(Range(y)) = 1

\* C4: cramers_v and phi_coefficient return exactly 0 whenever either series
\* has only one distinct value, and cramers_v_with_ci returns the point
\* estimate 0 (with the interval (0, 0)) in the same case.
C4_DegenerateIsZero ==
    (pc = "done" /\ OneCategory) =>
        /\ ret.val = 0
        /\ ret.fn = "cramers_v_with_ci" => ret.ci = <<0, 0>>

C4_Witness ==
    /\ StatReturned("phi_coefficient")
    /\ Cardinality(Range(x)) = 1
    /\ Cardinality(Range(y)) = 3

\* C5: the value returned by cramers_v lies in [0, 1]: the chi-squared
\* statistic it uses never exceeds N * (min(rows, cols) - 1), 2x2 tables
\* included.
C5_CramersVInUnitInterval ==
    StatReturned("cramers_v") =>
        LET ct == crosstab(x, y)
        IN  /\ 0 <= ret.val /\ ret.val <= Scale
            /\ RLeq(RZero, chi2_contingency(ct))
            /\ RLeq(chi2_contingency(ct), <<TableTotal(ct) * MinDim(ct), 1>>)

C5_Witness ==
    /\ StatReturned("cramers_v")
    /\ Cardinality(crosstab(x, y).rows) = 3
    /\ Cardinality(crosstab(x, y).cols) = 3
    /\ ret.val = Scale

\* C6: the value returned by phi_coefficient lies in [0, 1], also for tables
\* larger than 2x2.
C6_PhiInUnitInterval ==
    StatReturned("phi_coefficient") => (0 <= ret.val /\ ret.val <= Scale)

\* chi-squared by the observed-vs-expected formula over all cells, without a
\* continuity correction: the reference of the scenario
ReferenceChi2(ct) ==
    RSum([c \in ct.rows \X ct.cols |->
            PearsonTerm(TableTotal(ct), ct.cnt[c], RowTotal(ct, c[1]), ColTotal(ct, c[2]))],
         ct.rows \X ct.cols)

\* C7: for the table {(A,X):40, (A,Y):10, (B,X):5, (B,Y):45}, N = 100,
\* min_dim is 1 and cramers_v returns sqrt(chi2 / 100) with chi2 the
\* uncorrected observed-vs-expected statistic over the four cells.
C7_ScenarioMatchesReference ==
    (StatReturned("cramers_v") /\ x = ScenarioX /\ y = ScenarioY) =>
        LET ct == crosstab(x, y)
        IN  /\ TableTotal(ct) = 100
            /\ MinDim(ct) = 1
            /\ ret.val = FSqrt(RDivInt(ReferenceChi2(ct), 100))

\* C8: in every bootstrap iteration one index vector of length N over
\* 0..N-1 is applied to both series: the k-th resampled pair is the original
\* pair at the k-th drawn index.
C8_PairedResample ==
    indices # <<>> =>
        /\ Len(indices) = Len(x)
        /\ Len(x_boot) = Len(x)
        /\ Len(y_boot) = Len(x)
        /\ \A k \in 1 .. Len(x) :
              /\ indices[k] \in 0 .. Len(x) - 1
              /\ x_boot[k] = x[indices[k] + 1]
              /\ y_boot[k] = y[indices[k] + 1]

C8_Witness ==
    /\ pc = "boot"
    /\ Len(x) = 3
    /\ Cardinality(Range(indices)) = 2
    /\ Cardinality(Range(x)) = 3
    /\ Cardinality(Range(y_boot)) = 2

\* C9: two invocations of cramers_v_with_ci with the same x, y and
\* confidence return the same point estimate and interval, whatever state
\* the global generator was in before each of them.
C9_SameInputsSameResult ==
    (StatReturned("cramers_v_with_ci") /\ prev.fn = "cramers_v_with_ci") => ret = prev

C9_Witness ==
    /\ StatReturned("cramers_v_with_ci")
    /\ prev.fn = "cramers_v_with_ci"
    /\ ret.ci[1] < ret.ci[2]

\* C10 as claimed: the returned interval brackets the point estimate,
\* lower <= v <= upper.
C10_IntervalBracketsPoint ==
    StatReturned("cramers_v_with_ci") => (ret.ci[1] <= ret.val /\ ret.val <= ret.ci[2])

\* C10 as amended: the returned bounds are ordered, 0 <= lower <= upper, and
\* bracket the point estimate in the one-category case, where the function
\* returns (0, (0, 0)); otherwise the point estimate may lie outside.
C10_IntervalOrdered ==
    StatReturned("cramers_v_with_ci") =>
        /\ 0 <= ret.ci[1]
        /\ ret.ci[1] <= ret.ci[2]
        /\ OneCategory => (ret.ci[1] <= ret.val /\ ret.val <= ret.ci[2])

C10_Witness ==
    /\ StatReturned("cramers_v_with_ci")
    /\ ret.ci[1] < ret.ci[2]
    /\ ret.ci[2] < ret.val

\* C11: every value placed in the bootstrap distribution equals
\* cramers_v(x_boot, y_boot), computed with the min_dim and N of the
\* resample's own contingency table, also when a category of the original
\* data is absent from the resample.
C11_BootValueIsCramersVOfResample ==
    (pc = "boot" /\ v_bootstrap # <<>>) =>
        v_bootstrap[Len(v_bootstrap)] = cramers_v(x_boot, y_boot)

\* the k-th smallest element of a, by counting
OrderStat(a, k) ==
    CHOOSE w \in Range(a) :
        /\ Cardinality({i \in 1 .. Len(a) : a[i] < w}) < k
        /\ k <= Cardinality({i \in 1 .. Len(a) : a[i] <= w})

\* the q-th percentile of a, q = qnum / qden percent: between the order
\* statistics around the position q / 100 * (len - 1), linearly
ReferencePercentile(a, qnum, qden) ==
    LET num  == qnum * (Len(a) - 1)
        den  == qden * 100
        lo   == num \div den
        below == OrderStat(a, lo + 1)
        above == OrderStat(a, Min2(lo + 2, Len(a)))
    IN  below + ((num % den) * (above - below)) \div den

SeqMin(a) == CHOOSE w \in Range(a) : \A u \in Range(a) : w <= u

SeqMax(a) == CHOOSE w \in Range(a) : \A u \in Range(a) : u <= w

\* the function went through the bootstrap loop before it returned
BootstrapReturned == StatReturned("cramers_v_with_ci") /\ v_bootstrap # <<>>

\* C12: the returned interval is the two-sided percentile interval of the
\* whole bootstrap distribution: with alpha = 1 - confidence, lower is its
\* (alpha / 2) percentile and upper its (1 - alpha / 2) percentile, so
\* lower <= upper for every confidence in [0, 1].
C12_PercentileInterval ==
    BootstrapReturned =>
        /\ Len(v_bootstrap) = NResamples
        /\ ret.ci[1] = ReferencePercentile(v_bootstrap, 100 - confidence, 2)
        /\ ret.ci[2] = ReferencePercentile(v_bootstrap, 200 - (100 - confidence), 2)
        /\ SeqMin(v_bootstrap) <= ret.ci[1]
        /\ ret.ci[1] <= ret.ci[2]
        /\ ret.ci[2] <= SeqMax(v_bootstrap)
        /\ confidence = 100 =>
              (ret.ci[1] = SeqMin(v_bootstrap) /\ ret.ci[2] = SeqMax(v_bootstrap))

C12_Witness ==
    /\ BootstrapReturned
    /\ confidence = 50
    /\ ret.ci[1] < ret.ci[2]
    /\ ret.ci[1] \notin Range(v_bootstrap)

\* C13: when the statistic has the same value c on every resample, the
\* function returns the interval (c, c) as a normal result; when the original
\* data has a single category in one dimension, it returns (0, (0, 0)).
C13_DegenerateInterval ==
    StatReturned("cramers_v_with_ci") =>
        /\ (v_bootstrap # <<>> /\ Cardinality(Range(v_bootstrap)) = 1) =>
              ret.ci = <<v_bootstrap[1], v_bootstrap[1]>>
        /\ OneCategory => (ret.val = 0 /\ ret.ci = <<0, 0>>)

C13_Witness ==
    /\ BootstrapReturned
    /\ Cardinality(Range(v_bootstrap)) = 1
    /\ ret.ci[1] > 0
    /\ Cardinality(Range(x_boot)) = 2

\* C14: the point value cramers_v_with_ci returns equals cramers_v(x, y)
\* at every confidence level and whatever the resampling drew, and no step
\* of the function changes x or y.
C14_PointEstimateUnchanged ==
    [][/\ x' = x
       /\ y' = y
       /\ (pc' = "done" /\ ret'.fn = "cramers_v_with_ci") => ret'.val = cramers_v(x', y')]_vars

C14_Witness ==
    /\ BootstrapReturned
    /\ confidence = 50
    /\ ret.val > 0
    /\ ret.val \notin Range(v_bootstrap)
    /\ Cardinality(crosstab(x, y).rows) = 3

\* ---------------------------------------------------------- matrix claims
Dim == 0 .. n_vars - 1

CallsOf(i, j) == {k \in 1 .. Len(calls) : calls[k][1] = i /\ calls[k][2] = j}

\* C1: build_effect_size_matrix sets every diagonal cell to exactly 1.0,
\* never calls the effect function for a pair with i = j, and calls it exactly
\* once for each ordered pair with i # j; the per-class loop of
\* generate_improved_visualizations does the same with cramers_v.
C1_DiagonalOneCallsOncePerPair ==
    /\ \A i \in Dim : CallsOf(i, i) = {}
    /\ pc \in {"built", "perclass_built"} =>
          \A i, j \in Dim :
              IF i = j THEN matrix[<<i, i>>] = Fin(Scale)
              ELSE Cardinality(CallsOf(i, j)) = 1

C1_Witness == pc = "built" /\ n_vars = NCatVars

\* the pairwise function returned equal values for (i, j) and (j, i)
CallsSymmetric ==
    \A a, b \in 1 .. Len(calls) :
        (calls[a][1] = calls[b][2] /\ calls[a][2] = calls[b][1]) =>
            FloatEq(calls[a][3], calls[b][3])

MatrixSymmetric == \A i, j \in Dim : FloatEq(matrix[<<i, j>>], matrix[<<j, i>>])

\* C2: when the pairwise function is symmetric, as Cramer's V and Phi are,
\* the matrix of build_effect_size_matrix satisfies M[i][j] = M[j][i]; so does
\* the per-class Cramer's V matrix of generate_improved_visualizations.
C2_SymmetricMatrix ==
    /\ (pc = "built" /\ CallsSymmetric) => MatrixSymmetric
    /\ pc = "perclass_built" => MatrixSymmetric
    /\ pc \in {"perclass", "perclass_built"} =>
          /\ cramers_v(x, y) = cramers_v(y, x)
          /\ phi_coefficient(x, y) = phi_coefficient(y, x)

C2_Witness ==
    /\ pc = "built"
    /\ n_vars = NCatVars
    /\ CallsSymmetric
    /\ matrix[<<0, 1>>] # matrix[<<0, 2>>]

\* C3: the built matrix is finite in every cell: where the pairwise function
\* returned nan or an infinity, the cell holds 0.
C3_MatrixFinite ==
    pc = "built" =>
        /\ \A c \in DOMAIN matrix : IsFinite(matrix[c])
        /\ \A k \in 1 .. Len(calls) :
              ~IsFinite(calls[k][3]) => matrix[<<calls[k][1], calls[k][2]>>] = Fin(0)

\* ---------------------------------------------------------- layout claims
NodesPlaced == pc \in {"chord_loop", "chord_done", "net_loop", "net_done"}

InChord == pc \in {"chord_loop", "chord_done"}

InNet == pc \in {"net_loop", "net_done"}

LayoutDone == pc \in {"chord_done", "net_done"}

\* C15: a table with R row labels and C column labels gets R + C nodes, the
\* rows first, then the columns, each group in the table's order, node k at
\* the angle 2 * pi * k / n: the angles lie in [0, 2 * pi), are pairwise
\* distinct and equally spaced; a square matrix over one set of entities gets
\* one node per entity.
C15_NodesEquallySpaced ==
    NodesPlaced =>
        LET n == Len(nodes)
        IN  /\ InChord =>
                 LET ct == crosstab(x, y)
                     R  == Cardinality(ct.rows)
                 IN  /\ n = R + Cardinality(ct.cols)
                     /\ {nodes[k].label : k \in 1 .. R} = ct.rows
                     /\ {nodes[k].label : k \in R + 1 .. n} = ct.cols
                     /\ \A k, l \in 1 .. n :
                            (k < l /\ (l <= R \/ k > R)) => nodes[k].label < nodes[l].label
            /\ InNet =>
                 /\ n = Cardinality({c[1] : c \in DOMAIN corr_matrix})
                 /\ \A k, l \in 1 .. n : k # l => nodes[k].label # nodes[l].label
            /\ \A k \in 1 .. n :
                  /\ nodes[k].angle[1] * n = (k - 1) * nodes[k].angle[2]
                  /\ RLeq(RZero, nodes[k].angle)
                  /\ RLess(nodes[k].angle, ROne)
            /\ \A k, l \in 1 .. n : k # l => nodes[k].angle # nodes[l].angle
            /\ \A k \in 1 .. n - 1 :
                  RSub(nodes[k + 1].angle, nodes[k].angle) = RSub(ROne, nodes[n].angle)

C15_Witness ==
    /\ pc = "chord_done"
    /\ Cardinality(crosstab(x, y).rows) = 2
    /\ Cardinality(crosstab(x, y).cols) = 3
    /\ Len(nodes) = 5

\* the marginal of the table that belongs to node k
MarginalOfNode(ct, k) ==
    IF k <= Cardinality(ct.rows)
    THEN RowTotal(ct, nodes[k].label)
    ELSE ColTotal(ct, nodes[k].label)

MaxMarginal(ct) ==
    CHOOSE m \in {MarginalOfNode(ct, k) : k \in 1 .. Len(nodes)} :
        \A k \in 1 .. Len(nodes) : MarginalOfNode(ct, k) <= m

\* C16 as claimed: each node's size is its marginal sum divided by the
\* largest marginal, so it lies in [0, 1] and the node with the largest
\* marginal has size exactly 1.0.
C16_NodeSizeIsMarginalOverMax ==
    InChord =>
        LET ct == crosstab(x, y)
        IN  \A k \in 1 .. Len(nodes) :
                /\ nodes[k].size = Rat(MarginalOfNode(ct, k), MaxMarginal(ct))
                /\ MarginalOfNode(ct, k) = MaxMarginal(ct) => nodes[k].size = ROne

\* C16 as amended: each node's size is 0.3 times its marginal sum divided by
\* the largest marginal, so it lies in [0, 0.3] and the node with the largest
\* marginal has size exactly 0.3, the largest of all.
C16_NodeSizeScaled ==
    InChord =>
        LET ct == crosstab(x, y)
        IN  \A k \in 1 .. Len(nodes) :
                /\ nodes[k].size =
                      RMul(Rat(3, 10), Rat(MarginalOfNode(ct, k), MaxMarginal(ct)))
                /\ RLeq(RZero, nodes[k].size)
                /\ RLeq(nodes[k].size, Rat(3, 10))
                /\ MarginalOfNode(ct, k) = MaxMarginal(ct) => nodes[k].size = Rat(3, 10)

C16_Witness ==
    /\ pc = "chord_done"
    /\ \E k, l \in 1 .. Len(nodes) :
          /\ nodes[k].size = Rat(3, 10)
          /\ nodes[l].size = Rat(1, 10)

\* the absolute value of the cell a chord was drawn for
CellAbs(c) ==
    IF InChord
    THEN LET ct == crosstab(x, y)
         IN  <<ct.cnt[<<nodes[c.src + 1].label, nodes[c.dst + 1].label>>], 1>>
    ELSE RAbs(corr_matrix[<<c.src, c.dst>>])

\* the cells of the table being laid out, as absolute values
CellAbsValues ==
    IF InChord
    THEN LET ct == crosstab(x, y) IN {<<ct.cnt[c], 1>> : c \in ct.rows \X ct.cols}
    ELSE {RAbs(corr_matrix[c]) : c \in DOMAIN corr_matrix}

SizesOf(ns) == [k \in 1 .. Len(ns) |-> ns[k].size]

AnglesOf(ns) == [k \in 1 .. Len(ns) |-> ns[k].angle]

\* C17: a cell whose absolute value is below the threshold never produces a
\* chord, yet it is counted in the marginal sums behind the node sizes: the
\* node sizes are the same under every threshold.
C17_ThresholdCutsChordsNotSizes ==
    /\ NodesPlaced =>
          \A k \in 1 .. Len(chords) : ~RLess(CellAbs(chords[k]), threshold)
    /\ (LayoutDone /\ prev_layout # <<>>) => SizesOf(nodes) = SizesOf(prev_layout[1].nodes)
    /\ InChord =>
          \A k \in 1 .. Len(nodes) :
              nodes[k].size =
                  Rat(3 * MarginalOfNode(crosstab(x, y), k), 10 * MaxMarginal(crosstab(x, y)))

C17_Witness ==
    /\ pc = "chord_done"
    /\ prev_layout # <<>>
    /\ Len(chords) < Len(prev_layout[1].chords)
    /\ \E a \in CellAbsValues : RLess(RZero, a) /\ RLess(a, threshold)
    /\ Cardinality(Range(SizesOf(nodes))) = 3

\* the matrix [[1, 0.05, 0.5], [0.05, 1, 0.2], [0.5, 0.2, 1]] over P, Q, R
ScenarioMatrix ==
    [c \in (0 .. 2) \X (0 .. 2) |->
       IF c[1] = c[2] THEN ROne
       ELSE IF {c[1], c[2]} = {0, 1} THEN Rat(1, 20)
       ELSE IF {c[1], c[2]} = {0, 2} THEN Rat(1, 2)
       ELSE Rat(1, 5)]

ChordPairs == {<<chords[k].src, chords[k].dst>> : k \in 1 .. Len(chords)}

\* C18: laying out the scenario matrix over P, Q, R with threshold 0.1 gives
\* exactly the two chords (P, R) and (Q, R): none for (P, Q), none for a
\* diagonal cell, no pair twice.
C18_ScenarioChords ==
    (pc = "net_done" /\ corr_matrix = ScenarioMatrix /\ threshold = Rat(1, 10)) =>
        /\ Len(nodes) = 3
        /\ Len(chords) = 2
        /\ ChordPairs = {<<0, 2>>, <<1, 2>>}

C18_Witness ==
    /\ pc = "net_done"
    /\ corr_matrix = ScenarioMatrix
    /\ threshold = Rat(1, 10)
    /\ Len(chords) = 2

ThresholdAboveAll == \A a \in CellAbsValues : RLess(a, threshold)

\* C19: with a threshold above the largest value of the matrix the layout
\* ends with no chord and no error, and with the nodes (count and angles) it
\* has under any other threshold.
C19_ThresholdAboveMaxNoChords ==
    LayoutDone =>
        /\ ThresholdAboveAll => (chords = <<>> /\ nodes # <<>>)
        /\ prev_layout # <<>> => AnglesOf(nodes) = AnglesOf(prev_layout[1].nodes)

C19_Witness ==
    /\ pc = "net_done"
    /\ ThresholdAboveAll
    /\ prev_layout # <<>>
    /\ Len(prev_layout[1].chords) = 3
    /\ chords = <<>>

\* C20: the width of a chord is proportional to its cell's absolute value
\* over the largest absolute value among the surviving cells: the widths of
\* two chords are in the ratio of their values, the strongest surviving cell
\* has the full width and no chord is wider, and the width does not decrease
\* with the absolute value.
C20_WidthProportionalToValue ==
    (LayoutDone /\ chords # <<>>) =>
        LET top == chords[CHOOSE k \in 1 .. Len(chords) :
                             \A l \in 1 .. Len(chords) : RLeq(chords[l].value, chords[k].value)]
        IN  \A k \in 1 .. Len(chords) :
                /\ RMul(chords[k].linewidth, top.value) = RMul(top.linewidth, chords[k].value)
                /\ RLeq(chords[k].linewidth, top.linewidth)
                /\ \A l \in 1 .. Len(chords) :
                       RLeq(chords[k].value, chords[l].value) =>
                           RLeq(chords[k].linewidth, chords[l].linewidth)

\* an angle in degrees brought into [0, 360)
Norm360(r) ==
    IF RLess(r, RZero) THEN RAdd(r, <<360, 1>>)
    ELSE IF RLeq(<<360, 1>>, r) THEN RSub(r, <<360, 1>>)
    ELSE r

\* the rotation the rule of the specification gives the label of a node: the
\* node's angle, and 180 degrees more strictly between 90 and 270 degrees
RotationBetween90And270(angle) ==
    LET deg == degrees(angle)
    IN  IF RLess(<<90, 1>>, deg) /\ RLess(deg, <<270, 1>>)
        THEN RAdd(deg, <<180, 1>>) ELSE deg

\* C25: every label a layout routine has rotated stands at its node's angle,
\* turned by 180 degrees more exactly when that angle lies strictly between
\* 90 and 270 degrees (rotations compared as directions, modulo 360).
C25_LabelFlippedBetween90And270 ==
    \A k \in DOMAIN labels :
        labels[k].rotated =>
            Norm360(labels[k].rotation) = Norm360(RotationBetween90And270(labels[k].angle))

\* the cell the layout compared with the threshold to draw or skip the chord
\* between the nodes i and j
ComparedValue(i, j) ==
    IF InChord
    THEN data_norm(contingency_table, cats1(contingency_table)[i + 1],
                   cats2(contingency_table)[j + 1])
    ELSE RAbs(corr_matrix[<<i, j>>])

\* the pairs of nodes the finished layout has looped over
LoopedPairs ==
    IF InChord
    THEN (0 .. Len(cats1(contingency_table)) - 1) \X (0 .. Len(cats2(contingency_table)) - 1)
    ELSE {c \in (0 .. n_vars - 1) \X (0 .. n_vars - 1) : c[1] < c[2]}

\* the chord between the nodes i and j is in the drawing
HasChord(i, j) ==
    \E k \in 1 .. Len(chords) :
        /\ chords[k].src = i
        /\ chords[k].dst = IF InChord THEN Len(cats1(contingency_table)) + j ELSE j

\* C27: the cutoff is inclusive: in the finished contingency layout and in
\* the finished correlation drawing loop a pair of nodes has a chord exactly
\* when the value compared with the threshold is at least the threshold.
C27_CutoffInclusive ==
    LayoutDone =>
        \A c \in LoopedPairs :
            HasChord(c[1], c[2]) <=> RLeq(threshold, ComparedValue(c[1], c[2]))

\* C29: a chord of the contingency layout has a weight above the threshold
\* and at most 1, a radius 0.8 + 0.1 * weight in [0.8, 0.9] that grows
\* strictly with the weight, an opacity in [0.3, 0.7] and a width in (0, 2];
\* a chord of the correlation loop has an opacity of at most 0.9.
C29_ChordRanges ==
    /\ InChord =>
         \A k \in 1 .. Len(chords) :
             LET c == chords[k]
             IN  /\ RLess(threshold, c.value) /\ RLeq(c.value, ROne)
                 /\ RLeq(Rat(8, 10), c.r) /\ RLeq(c.r, Rat(9, 10))
                 /\ RLeq(Rat(3, 10), c.alpha) /\ RLeq(c.alpha, Rat(7, 10))
                 /\ RLess(RZero, c.linewidth) /\ RLeq(c.linewidth, <<2, 1>>)
                 /\ \A l \in 1 .. Len(chords) :
                        RLess(c.value, chords[l].value) <=> RLess(c.r, chords[l].r)
    /\ InNet => \A k \in 1 .. Len(chords) : RLeq(chords[k].alpha, Rat(9, 10))

C29_Witness ==
    /\ pc = "chord_done"
    /\ \E k, l \in 1 .. Len(chords) :
           /\ chords[k].value = ROne
           /\ chords[l].value = Rat(1, 2)
           /\ chords[k].r = Rat(9, 10)
           /\ chords[l].r = Rat(85, 100)

\* a drawing of a signed correlation matrix is finished
SignedDrawn == pc \in {"net_done", "signed_done"}

\* C21: in every drawing made from a signed correlation matrix a chord is
\* red exactly when its cell of the matrix is below 0 and blue exactly when
\* it is above 0, while the value used for thresholding and width is the
\* cell's absolute value.
C21_ColorFromSignedCell ==
    SignedDrawn =>
        \A k \in 1 .. Len(chords) :
            LET cell == corr_matrix[<<chords[k].src, chords[k].dst>>]
            IN  /\ chords[k].color = "red" <=> RLess(cell, RZero)
                /\ chords[k].color = "blue" <=> RLess(RZero, cell)
                /\ chords[k].value = RAbs(cell)

AllZero(ct) == \A c \in ct.rows \X ct.cols : ct.cnt[c] = 0

\* C28: on a table whose cells are all 0 the layout skips the normalisation
\* and draws no chord, and nothing is divided by zero: neither a chord weight
\* nor a node size is the result of 0 / 0.
C28_AllZeroTableNoDivision ==
    /\ \A k \in 1 .. Len(panels) :
           (panels[k].drawn /\ AllZero(panels[k].table)) => panels[k].chords = <<>>
    /\ (pc \in {"chord_loop", "chord_done"} /\ AllZero(contingency_table)) =>
           /\ \A k \in 1 .. Len(chords) : chords[k].value # RNaN
           /\ chords = <<>>
           /\ \A k \in 1 .. Len(nodes) : nodes[k].size # RNaN

\* the labels of totals that at most half of the labels do not exceed: the
\* totals strictly below the median
StrictlyBelowMedian(totals) ==
    {r \in DOMAIN totals :
       2 * Cardinality({o \in DOMAIN totals : totals[o] <= totals[r]})
           <= Cardinality(DOMAIN totals)}

\* the labels of the largest total
OfMaxTotal(totals) == {r \in DOMAIN totals : \A o \in DOMAIN totals : totals[o] <= totals[r]}

C22_ShapeMismatchRejected ==
    /\ Len(x) # Len(y) => (pc \in {"start", "error"} /\ ret = NoResult /\ indices = <<>>)
    /\ pc \in {"chord_loop", "chord_done"} =>
           Cardinality(contingency_table.rows) = Cardinality(contingency_table.cols)

\* compute_correlation_matrix has returned
Correlated == pc \in {"correlated", "correlations_verified"} \/ (pc = "AssertionError" /\ x # <<>>)

\* C23: the standardized Pearson correlation matrix compute_correlation_matrix
\* returns is symmetric, every entry of its diagonal is 1.0, and the
\* assertions of verify_correlations on it pass.
C23_CorrelationSymmetricUnitDiagonal ==
    Correlated =>
        /\ \A i, j \in 0 .. Len(numeric_cols) - 1 :
               /\ corr_matrix[<<i, j>>] = corr_matrix[<<j, i>>]
               /\ RLeq(RAbs(corr_matrix[<<i, j>>]), ROne)
        /\ \A i \in 0 .. Len(numeric_cols) - 1 : corr_matrix[<<i, i>>] = ROne
        /\ pc # "AssertionError"

C23_Witness ==
    /\ pc = "correlations_verified"
    /\ corr_matrix[<<0, 2>>] = ROne
    /\ RLess(corr_matrix[<<0, 1>>], RZero)
    /\ RLess(Rat(-1, 1), corr_matrix[<<1, 2>>])

\* categorize_variability has returned
Categorized ==
    pc \in {"categorized", "representation_verified"} \/ (pc = "AssertionError" /\ x = <<>>)

====
